---- MODULE Spec2Model ----
(***************************************************************************)
(* Model of the video fetch service in src/app.py: filename sanitization,  *)
(* the /api/qualities handler (metadata retrieval and format               *)
(* normalization) and the /api/download handler (temporary directory,      *)
(* extractor run, streamed response and cleanup).                          *)
(*                                                                         *)
(* Python strings are modelled as sequences of one-character strings, so   *)
(* that re.sub, str.strip, str.startswith, str.lower, the `in` substring   *)
(* test and the f-strings are computed and not assumed.                    *)
(*                                                                         *)
(* The server handles one request after the other.  What outlives a        *)
(* request is the file system (disk) and the tool cache.                   *)
(***************************************************************************)
EXTENDS Integers, Sequences, FiniteSets, TLC

VARIABLES
    \* sanitize_filename driver
    spc,                \* "start" | "once" | "twice"
    filename,           \* the input string
    sanitized,          \* sanitize_filename(filename)
    resanitized,        \* sanitize_filename(sanitize_filename(filename))
    \* the request being handled
    pc,                 \* position of the handler
    endpoint,           \* "qualities" | "download" | "none"
    data,               \* request.get_json()
    meta,               \* how the extractor run of get_video_info ended,
                        \* "none" before the call
    procs,              \* kinds of external process spawned for the request
    status_code,        \* HTTP status of the response, 0 before it is set
    error_message,      \* the 'error' field of a JSON error body
    served,             \* number of requests received so far
    \* get_qualities locals
    formats,
    audio_formats,
    best_audio_by_ext,
    best_audio_overall,
    video_formats,
    processed_formats,
    seen_resolutions,
    idx,                \* next element of the running for loop
    response,           \* the 'formats' array of the 200 response
    \* download_video locals and the world it acts on
    temp_dir,           \* None or the directory made by tempfile.mkdtemp()
    disk,               \* the temporary directories that exist
    rmtree_calls,       \* shutil.rmtree calls made on temp_dir
    tool_cache,         \* _tool_cache
    ffmpeg_path,        \* result of tool_exists('ffmpeg')
    file_chunks,        \* 64KB chunks of the downloaded file
    chunks_sent,        \* chunks generate() has yielded
    \* concurrent calls of tool_exists('ffmpeg')
    platform,           \* os.name of the process: "posix" | "nt"
    tpc,                \* position of each calling thread in tool_exists
    tret,               \* what each thread's last call returned
    calls,              \* calls of tool_exists started so far
    cache_writes,       \* assignments to _tool_cache['ffmpeg'] made so far
    wrote               \* whether the thread's running call assigned the entry

sanVars == <<spc, filename, sanitized, resanitized>>
reqVars == <<pc, endpoint, data, meta, procs, status_code, error_message, served>>
qVars == <<formats, audio_formats, best_audio_by_ext, best_audio_overall,
           video_formats, processed_formats, seen_resolutions, idx, response>>
dlVars == <<temp_dir, disk, rmtree_calls, tool_cache, ffmpeg_path, file_chunks,
           chunks_sent>>

toolVars == <<platform, tpc, tret, calls, cache_writes, wrote>>

vars == <<sanVars, reqVars, qVars, dlVars, toolVars>>

\* Python's None for integer-valued and for string-valued fields
None == -1
NoneStr == "<None>"

----------------------------------------------------------------------------
(* Strings *)

\* The string c * n
Repeat(c, n) == [i \in 1..n |-> c]

RECURSIVE SeqsUpTo(_, _)
\* All sequences over S of length at most n.
SeqsUpTo(S, n) ==
    IF n = 0 THEN {<<>>}
    ELSE LET shorter == SeqsUpTo(S, n - 1)
         IN  shorter \cup {Append(s, c) : s \in {t \in shorter : Len(t) = n - 1}, c \in S}

\* s.startswith(p)
StartsWith(s, p) == Len(s) >= Len(p) /\ SubSeq(s, 1, Len(p)) = p

\* sub in s
Contains(s, sub) ==
    \E k \in 0..(Len(s) - Len(sub)) : SubSeq(s, k + 1, k + Len(sub)) = sub

UpperCase ==
    <<"A", "B", "C", "D", "E", "F", "G", "H", "I", "J", "K", "L", "M",
      "N", "O", "P", "Q", "R", "S", "T", "U", "V", "W", "X", "Y", "Z">>

LowerCase ==
    <<"a", "b", "c", "d", "e", "f", "g", "h", "i", "j", "k", "l", "m",
      "n", "o", "p", "q", "r", "s", "t", "u", "v", "w", "x", "y", "z">>

LowerChar(c) ==
    IF \E k \in 1..Len(UpperCase) : UpperCase[k] = c
    THEN LowerCase[CHOOSE k \in 1..Len(UpperCase) : UpperCase[k] = c]
    ELSE c

\* s.lower()
Lower(s) == [k \in 1..Len(s) |-> LowerChar(s[k])]

DigitChars == <<"0", "1", "2", "3", "4", "5", "6", "7", "8", "9">>

IsDigit(c) == \E k \in 1..Len(DigitChars) : DigitChars[k] = c

DigitValue(c) == (CHOOSE k \in 1..Len(DigitChars) : DigitChars[k] = c) - 1

RECURSIVE IntToStr(_)
\* str(n) for n >= 0
IntToStr(n) ==
    IF n < 10 THEN <<DigitChars[n + 1]>>
    ELSE Append(IntToStr(n \div 10), DigitChars[(n % 10) + 1])

RECURSIVE StrToInt(_)
\* int(s) for a string of digits
StrToInt(s) ==
    IF s = <<>> THEN 0
    ELSE 10 * StrToInt(SubSeq(s, 1, Len(s) - 1)) + DigitValue(s[Len(s)])

Kw_unavailable ==
    <<"u", "n", "a", "v", "a", "i", "l", "a", "b", "l", "e">>

Kw_removed ==
    <<"r", "e", "m", "o", "v", "e", "d">>

Kw_private ==
    <<"p", "r", "i", "v", "a", "t", "e">>

Kw_region ==
    <<"r", "e", "g", "i", "o", "n">>

Kw_age_restricted ==
    <<"a", "g", "e", "-", "r", "e", "s", "t", "r", "i", "c", "t", "e", "d">>

Kw_members ==
    <<"m", "e", "m", "b", "e", "r", "s">>

Kw_timeout ==
    <<"t", "i", "m", "e", "o", "u", "t">>

Kw_network ==
    <<"n", "e", "t", "w", "o", "r", "k">>

Pfx_http ==
    <<"h", "t", "t", "p", ":", "/", "/">>

Pfx_https ==
    <<"h", "t", "t", "p", "s", ":", "/", "/">>

Sub_VideoUnavailable ==
    <<"V", "i", "d", "e", "o", " ", "u", "n", "a", "v", "a", "i", "l", "a",
      "b", "l", "e">>

Sub_PrivateVideo ==
    <<"P", "r", "i", "v", "a", "t", "e", " ", "v", "i", "d", "e", "o">>

Sub_NotAvailable ==
    <<"T", "h", "i", "s", " ", "v", "i", "d", "e", "o", " ", "i", "s", " ",
      "n", "o", "t", " ", "a", "v", "a", "i", "l", "a", "b", "l", "e">>

Sub_ConfirmAge ==
    <<"S", "i", "g", "n", " ", "i", "n", " ", "t", "o", " ", "c", "o", "n",
      "f", "i", "r", "m", " ", "y", "o", "u", "r", " ", "a", "g", "e">>

Sub_MembersOnly ==
    <<"m", "e", "m", "b", "e", "r", "s", "-", "o", "n", "l", "y">>

Sub_SignIn ==
    <<"S", "i", "g", "n", " ", "i", "n", " ", "t", "o", " ", "c", "o", "n",
      "f", "i", "r", "m">>

Sub_NoJsRuntime ==
    <<"N", "o", " ", "s", "u", "p", "p", "o", "r", "t", "e", "d", " ", "J",
      "a", "v", "a", "S", "c", "r", "i", "p", "t", " ", "r", "u", "n", "t",
      "i", "m", "e">>

\* src/app.py:122
Msg_Unavailable ==
    <<"V", "i", "d", "e", "o", " ", "i", "s", " ", "u", "n", "a", "v", "a",
      "i", "l", "a", "b", "l", "e", ".", " ", "I", "t", " ", "m", "a", "y",
      " ", "h", "a", "v", "e", " ", "b", "e", "e", "n", " ", "r", "e", "m",
      "o", "v", "e", "d", " ", "o", "r", " ", "m", "a", "d", "e", " ", "p",
      "r", "i", "v", "a", "t", "e", ".">>

\* src/app.py:124
Msg_Private ==
    <<"T", "h", "i", "s", " ", "v", "i", "d", "e", "o", " ", "i", "s", " ",
      "p", "r", "i", "v", "a", "t", "e", " ", "a", "n", "d", " ", "c", "a",
      "n", "n", "o", "t", " ", "b", "e", " ", "d", "o", "w", "n", "l", "o",
      "a", "d", "e", "d", ".">>

\* src/app.py:126
Msg_Region ==
    <<"T", "h", "i", "s", " ", "v", "i", "d", "e", "o", " ", "i", "s", " ",
      "n", "o", "t", " ", "a", "v", "a", "i", "l", "a", "b", "l", "e", " ",
      "i", "n", " ", "y", "o", "u", "r", " ", "r", "e", "g", "i", "o", "n",
      ".">>

\* src/app.py:128
Msg_AgeRestricted ==
    <<"T", "h", "i", "s", " ", "v", "i", "d", "e", "o", " ", "i", "s", " ",
      "a", "g", "e", "-", "r", "e", "s", "t", "r", "i", "c", "t", "e", "d",
      " ", "a", "n", "d", " ", "c", "a", "n", "n", "o", "t", " ", "b", "e",
      " ", "d", "o", "w", "n", "l", "o", "a", "d", "e", "d", ".">>

\* src/app.py:130
Msg_MembersOnly ==
    <<"T", "h", "i", "s", " ", "v", "i", "d", "e", "o", " ", "i", "s", " ",
      "o", "n", "l", "y", " ", "a", "v", "a", "i", "l", "a", "b", "l", "e",
      " ", "t", "o", " ", "c", "h", "a", "n", "n", "e", "l", " ", "m", "e",
      "m", "b", "e", "r", "s", ".">>

\* src/app.py:132
Msg_AuthRequired ==
    <<"Y", "o", "u", "T", "u", "b", "e", " ", "r", "e", "q", "u", "i", "r",
      "e", "s", " ", "a", "u", "t", "h", "e", "n", "t", "i", "c", "a", "t",
      "i", "o", "n", " ", "f", "o", "r", " ", "t", "h", "i", "s", " ", "v",
      "i", "d", "e", "o", ".", " ", "T", "h", "i", "s", " ", "m", "a", "y",
      " ", "b", "e", " ", "d", "u", "e", " ", "t", "o", " ", "r", "e", "g",
      "i", "o", "n", "a", "l", " ", "r", "e", "s", "t", "r", "i", "c", "t",
      "i", "o", "n", "s", " ", "o", "r", " ", "t", "h", "e", " ", "v", "i",
      "d", "e", "o", " ", "b", "e", "i", "n", "g", " ", "a", "g", "e", "-",
      "r", "e", "s", "t", "r", "i", "c", "t", "e", "d", ".", " ", "T", "r",
      "y", " ", "a", " ", "d", "i", "f", "f", "e", "r", "e", "n", "t", " ",
      "v", "i", "d", "e", "o", " ", "o", "r", " ", "c", "h", "e", "c", "k",
      " ", "i", "f", " ", "t", "h", "e", " ", "v", "i", "d", "e", "o", " ",
      "i", "s", " ", "p", "u", "b", "l", "i", "c", "l", "y", " ", "a", "c",
      "c", "e", "s", "s", "i", "b", "l", "e", ".">>

\* src/app.py:134
Msg_AntiBot ==
    <<"V", "i", "d", "e", "o", " ", "e", "x", "t", "r", "a", "c", "t", "i",
      "o", "n", " ", "f", "a", "i", "l", "e", "d", " ", "d", "u", "e", " ",
      "t", "o", " ", "Y", "o", "u", "T", "u", "b", "e", "'", "s", " ", "a",
      "n", "t", "i", "-", "b", "o", "t", " ", "m", "e", "a", "s", "u", "r",
      "e", "s", ".", " ", "T", "h", "i", "s", " ", "i", "s", " ", "a", " ",
      "t", "e", "m", "p", "o", "r", "a", "r", "y", " ", "i", "s", "s", "u",
      "e", " ", "-", " ", "p", "l", "e", "a", "s", "e", " ", "t", "r", "y",
      " ", "a", "g", "a", "i", "n", " ", "l", "a", "t", "e", "r", " ", "o",
      "r", " ", "t", "r", "y", " ", "a", " ", "d", "i", "f", "f", "e", "r",
      "e", "n", "t", " ", "v", "i", "d", "e", "o", ".">>

\* src/app.py:136, the prefix of the f-string
Msg_FailedToFetch ==
    <<"F", "a", "i", "l", "e", "d", " ", "t", "o", " ", "f", "e", "t", "c",
      "h", " ", "v", "i", "d", "e", "o", " ", "i", "n", "f", "o", "r", "m",
      "a", "t", "i", "o", "n", ":", " ">>

\* src/app.py:143
Msg_TimedOut ==
    <<"R", "e", "q", "u", "e", "s", "t", " ", "t", "i", "m", "e", "d", " ",
      "o", "u", "t", ".", " ", "P", "l", "e", "a", "s", "e", " ", "t", "r",
      "y", " ", "a", "g", "a", "i", "n", ".">>

\* src/app.py:145
Msg_ParseFailed ==
    <<"F", "a", "i", "l", "e", "d", " ", "t", "o", " ", "p", "a", "r", "s",
      "e", " ", "v", "i", "d", "e", "o", " ", "i", "n", "f", "o", "r", "m",
      "a", "t", "i", "o", "n", ".">>

\* src/app.py:147
Msg_NotInstalled ==
    <<"y", "t", "-", "d", "l", "p", " ", "i", "s", " ", "n", "o", "t", " ",
      "i", "n", "s", "t", "a", "l", "l", "e", "d", ".", " ", "P", "l", "e",
      "a", "s", "e", " ", "i", "n", "s", "t", "a", "l", "l", " ", "i", "t",
      " ", "f", "i", "r", "s", "t", ".">>

\* src/app.py:151, the prefix of the f-string
Msg_Unexpected ==
    <<"A", "n", " ", "u", "n", "e", "x", "p", "e", "c", "t", "e", "d", " ",
      "e", "r", "r", "o", "r", " ", "o", "c", "c", "u", "r", "r", "e", "d",
      ":", " ">>

Pfx_VideoIs ==
    <<"V", "i", "d", "e", "o", " ", "i", "s">>

Pfx_ThisVideo ==
    <<"T", "h", "i", "s", " ", "v", "i", "d", "e", "o">>

Pfx_FailedTo ==
    <<"F", "a", "i", "l", "e", "d", " ", "t", "o">>

\* src/app.py:162
Msg_UrlRequired ==
    <<"U", "R", "L", " ", "i", "s", " ", "r", "e", "q", "u", "i", "r", "e",
      "d">>

\* src/app.py:166 and 307
Msg_InvalidUrl ==
    <<"I", "n", "v", "a", "l", "i", "d", " ", "U", "R", "L", " ", "f", "o",
      "r", "m", "a", "t", ".", " ", "U", "R", "L", " ", "m", "u", "s", "t",
      " ", "s", "t", "a", "r", "t", " ", "w", "i", "t", "h", " ", "h", "t",
      "t", "p", ":", "/", "/", " ", "o", "r", " ", "h", "t", "t", "p", "s",
      ":", "/", "/">>

\* src/app.py:270
Msg_NoFormats ==
    <<"N", "o", " ", "d", "o", "w", "n", "l", "o", "a", "d", "a", "b", "l",
      "e", " ", "v", "i", "d", "e", "o", " ", "f", "o", "r", "m", "a", "t",
      "s", " ", "f", "o", "u", "n", "d", " ", "f", "o", "r", " ", "t", "h",
      "i", "s", " ", "v", "i", "d", "e", "o">>

\* src/app.py:303
Msg_UrlAndFormatRequired ==
    <<"U", "R", "L", " ", "a", "n", "d", " ", "f", "o", "r", "m", "a", "t",
      "_", "i", "d", " ", "a", "r", "e", " ", "r", "e", "q", "u", "i", "r",
      "e", "d">>

\* src/app.py:386, the prefix of the f-string
Msg_DownloadFailed ==
    <<"D", "o", "w", "n", "l", "o", "a", "d", " ", "f", "a", "i", "l", "e",
      "d", ":", " ">>

\* src/app.py:392
Msg_FileNotFound ==
    <<"D", "o", "w", "n", "l", "o", "a", "d", " ", "c", "o", "m", "p", "l",
      "e", "t", "e", "d", " ", "b", "u", "t", " ", "f", "i", "l", "e", " ",
      "n", "o", "t", " ", "f", "o", "u", "n", "d">>

\* src/app.py:435
Msg_DownloadTimedOut ==
    <<"D", "o", "w", "n", "l", "o", "a", "d", " ", "t", "i", "m", "e", "d",
      " ", "o", "u", "t", ".", " ", "T", "h", "e", " ", "v", "i", "d", "e",
      "o", " ", "m", "a", "y", " ", "b", "e", " ", "t", "o", "o", " ", "l",
      "a", "r", "g", "e", " ", "o", "r", " ", "y", "o", "u", "r", " ", "c",
      "o", "n", "n", "e", "c", "t", "i", "o", "n", " ", "i", "s", " ", "s",
      "l", "o", "w", ".">>

\* str(AttributeError) of data.get when the JSON body is null
Msg_NoneHasNoGet ==
    <<"'", "N", "o", "n", "e", "T", "y", "p", "e", "'", " ", "o", "b", "j",
      "e", "c", "t", " ", "h", "a", "s", " ", "n", "o", " ", "a", "t", "t",
      "r", "i", "b", "u", "t", "e", " ", "'", "g", "e", "t", "'">>

\* str(AttributeError) of url.startswith when url is a JSON number
Msg_IntHasNoStartswith ==
    <<"'", "i", "n", "t", "'", " ", "o", "b", "j", "e", "c", "t", " ", "h",
      "a", "s", " ", "n", "o", " ", "a", "t", "t", "r", "i", "b", "u", "t",
      "e", " ", "'", "s", "t", "a", "r", "t", "s", "w", "i", "t", "h", "'">>

Err_VideoUnavailable ==
    <<"E", "R", "R", "O", "R", ":", " ", "[", "y", "o", "u", "t", "u", "b",
      "e", "]", " ", "x", ":", " ", "V", "i", "d", "e", "o", " ", "u", "n",
      "a", "v", "a", "i", "l", "a", "b", "l", "e">>

Err_PrivateVideo ==
    <<"E", "R", "R", "O", "R", ":", " ", "[", "y", "o", "u", "t", "u", "b",
      "e", "]", " ", "x", ":", " ", "P", "r", "i", "v", "a", "t", "e", " ",
      "v", "i", "d", "e", "o">>

Err_NotAvailable ==
    <<"E", "R", "R", "O", "R", ":", " ", "T", "h", "i", "s", " ", "v", "i",
      "d", "e", "o", " ", "i", "s", " ", "n", "o", "t", " ", "a", "v", "a",
      "i", "l", "a", "b", "l", "e">>

Err_ConfirmAge ==
    <<"E", "R", "R", "O", "R", ":", " ", "S", "i", "g", "n", " ", "i", "n",
      " ", "t", "o", " ", "c", "o", "n", "f", "i", "r", "m", " ", "y", "o",
      "u", "r", " ", "a", "g", "e">>

Err_MembersOnly ==
    <<"E", "R", "R", "O", "R", ":", " ", "J", "o", "i", "n", " ", "t", "o",
      " ", "g", "e", "t", " ", "a", "c", "c", "e", "s", "s", " ", "t", "o",
      " ", "m", "e", "m", "b", "e", "r", "s", "-", "o", "n", "l", "y", " ",
      "c", "o", "n", "t", "e", "n", "t">>

Err_SignInBot ==
    <<"E", "R", "R", "O", "R", ":", " ", "S", "i", "g", "n", " ", "i", "n",
      " ", "t", "o", " ", "c", "o", "n", "f", "i", "r", "m", " ", "y", "o",
      "u", "'", "r", "e", " ", "n", "o", "t", " ", "a", " ", "b", "o", "t">>

Err_NoJsRuntime ==
    <<"W", "A", "R", "N", "I", "N", "G", ":", " ", "N", "o", " ", "s", "u",
      "p", "p", "o", "r", "t", "e", "d", " ", "J", "a", "v", "a", "S", "c",
      "r", "i", "p", "t", " ", "r", "u", "n", "t", "i", "m", "e", " ", "c",
      "o", "u", "l", "d", " ", "b", "e", " ", "f", "o", "u", "n", "d">>

Err_Network ==
    <<"E", "R", "R", "O", "R", ":", " ", "N", "e", "t", "w", "o", "r", "k",
      " ", "i", "s", " ", "u", "n", "r", "e", "a", "c", "h", "a", "b", "l",
      "e">>

Err_Forbidden ==
    <<"E", "R", "R", "O", "R", ":", " ", "H", "T", "T", "P", " ", "E", "r",
      "r", "o", "r", " ", "4", "0", "3", ":", " ", "F", "o", "r", "b", "i",
      "d", "d", "e", "n">>

Url_https ==
    <<"h", "t", "t", "p", "s", ":", "/", "/", "y", "o", "u", "t", "u", ".",
      "b", "e", "/", "x">>

Url_http ==
    <<"h", "t", "t", "p", ":", "/", "/", "y", "o", "u", "t", "u", ".", "b",
      "e", "/", "x">>

Url_ftp ==
    <<"f", "t", "p", ":", "/", "/", "y", "o", "u", "t", "u", ".", "b", "e",
      "/", "x">>

Url_upper ==
    <<"H", "T", "T", "P", "S", ":", "/", "/", "y", "o", "u", "t", "u", ".",
      "b", "e", "/", "x">>

Url_noscheme ==
    <<"y", "o", "u", "t", "u", ".", "b", "e", "/", "x">>

Url_padded ==
    <<" ", "h", "t", "t", "p", "s", ":", "/", "/", "y", "o", "u", "t", "u",
      ".", "b", "e", "/", "x">>

Fid_single ==
    <<"2", "2">>

Fid_pair ==
    <<"1", "3", "7", "+", "1", "4", "0">>

----------------------------------------------------------------------------
(* sanitize_filename, src/app.py:56-65 *)

\* The character class of the re.sub pattern [<>:"/\\|?*]
IllegalChars == {"<", ">", ":", "\"", "/", "\\", "|", "?", "*"}

\* The argument of filename.strip('. ')
StripChars == {".", " "}

\* if len(filename) > 200: filename = filename[:200]
MaxFilenameLen == 200

\* The fallback of `filename if filename else 'video'`
DefaultName == <<"v", "i", "d", "e", "o">>

\* re.sub(r'[<>:"/\\|?*]', '', s)
RemoveIllegal(s) == SelectSeq(s, LAMBDA c : c \notin IllegalChars)

RECURSIVE LStrip(_)
LStrip(s) == IF s # <<>> /\ Head(s) \in StripChars THEN LStrip(Tail(s)) ELSE s

RECURSIVE RStrip(_)
RStrip(s) ==
    IF s # <<>> /\ s[Len(s)] \in StripChars THEN RStrip(SubSeq(s, 1, Len(s) - 1)) ELSE s

\* s.strip('. ')
Strip(s) == RStrip(LStrip(s))

Truncate(s) == IF Len(s) > MaxFilenameLen THEN SubSeq(s, 1, MaxFilenameLen) ELSE s

sanitize_filename(s) ==
    LET limited == Truncate(Strip(RemoveIllegal(s)))
    IN  IF limited # <<>> THEN limited ELSE DefaultName

\* Inputs: a short prefix, a run of 'a' and a short suffix, so that names on
\* both sides of the 200-character limit are drawn.
MaxAffix == 2
NameChars == {"a", ".", " ", "/"}
Affixes == SeqsUpTo(NameChars, MaxAffix)
FillLens == {0, MaxFilenameLen - 2, MaxFilenameLen - 1, MaxFilenameLen}
Filename(prefix, n, suffix) == prefix \o Repeat("a", n) \o suffix

----------------------------------------------------------------------------
(* get_video_info, src/app.py:67-151 *)

\* What the extractor writes to stderr when it exits non-zero (already
\* stripped of surrounding whitespace).
Stderrs ==
    {Err_VideoUnavailable, Err_PrivateVideo, Err_NotAvailable, Err_ConfirmAge,
     Err_MembersOnly, Err_SignInBot, Err_NoJsRuntime, Err_Network, Err_Forbidden}

\* Outcomes of subprocess.run(cmd, timeout=60): the timeout expires, the
\* interpreter is not found, a non-zero exit with a diagnostic, exit 0 with
\* output that is not JSON, exit 0 with the metadata.
RunOutcome(kind, stderr, info) == [kind |-> kind, stderr |-> stderr, info |-> info]

FailedRuns ==
    {RunOutcome(k, <<>>, <<>>) : k \in {"timeout", "notfound", "badjson"}}
    \cup {RunOutcome("exit", e, <<>>) : e \in Stderrs}

OkRun(info) == RunOutcome("ok", <<>>, info)

\* The if/elif chain on result.stderr, lines 119-136
StderrMessage(error_msg) ==
    IF Contains(error_msg, Sub_VideoUnavailable) THEN Msg_Unavailable
    ELSE IF Contains(error_msg, Sub_PrivateVideo) THEN Msg_Private
    ELSE IF Contains(error_msg, Sub_NotAvailable) THEN Msg_Region
    ELSE IF Contains(error_msg, Sub_ConfirmAge) THEN Msg_AgeRestricted
    ELSE IF Contains(error_msg, Sub_MembersOnly) THEN Msg_MembersOnly
    ELSE IF Contains(error_msg, Sub_SignIn) THEN Msg_AuthRequired
    ELSE IF Contains(error_msg, Sub_NoJsRuntime) THEN Msg_AntiBot
    ELSE Msg_FailedToFetch \o error_msg

\* except Exception as e, lines 148-151: re-raise or wrap
Reraise(msg) ==
    IF \/ StartsWith(msg, Pfx_VideoIs)
       \/ StartsWith(msg, Pfx_ThisVideo)
       \/ StartsWith(msg, Pfx_FailedTo)
    THEN msg
    ELSE Msg_Unexpected \o msg

\* except subprocess.TimeoutExpired, line 142-143
TimeoutMessage == Msg_TimedOut

\* The result of get_video_info for an outcome of the extractor run: the
\* message of the exception it raises, or the parsed metadata.
get_video_info(run) ==
    CASE run.kind = "timeout" -> [raised |-> TRUE, msg |-> TimeoutMessage, info |-> <<>>]
      [] run.kind = "badjson" -> [raised |-> TRUE, msg |-> Msg_ParseFailed, info |-> <<>>]
      [] run.kind = "notfound" -> [raised |-> TRUE, msg |-> Msg_NotInstalled, info |-> <<>>]
      [] run.kind = "exit" ->
            [raised |-> TRUE, msg |-> Reraise(StderrMessage(run.stderr)), info |-> <<>>]
      [] run.kind = "ok" -> [raised |-> FALSE, msg |-> <<>>, info |-> run.info]

\* The status chosen by the except clause of get_qualities, lines 279-287
QualitiesErrorStatus(msg) ==
    LET m == Lower(msg)
    IN  IF Contains(m, Kw_unavailable) \/ Contains(m, Kw_removed) THEN 404
        ELSE IF \/ Contains(m, Kw_private)
                \/ Contains(m, Kw_region)
                \/ Contains(m, Kw_age_restricted)
                \/ Contains(m, Kw_members) THEN 403
        ELSE IF Contains(m, Kw_timeout) \/ Contains(m, Kw_network) THEN 503
        ELSE 400

\* The status chosen by the except clause of download_video, lines 439-447
DownloadErrorStatus(msg) ==
    LET m == Lower(msg)
    IN  IF Contains(m, Kw_unavailable) \/ Contains(m, Kw_removed) THEN 404
        ELSE IF \/ Contains(m, Kw_private)
                \/ Contains(m, Kw_region)
                \/ Contains(m, Kw_age_restricted)
                \/ Contains(m, Kw_members) THEN 403
        ELSE IF Contains(m, Kw_timeout) \/ Contains(m, Kw_network) THEN 503
        ELSE 400

\* url.startswith(('http://', 'https://'))
HasHttpScheme(s) == StartsWith(s, Pfx_http) \/ StartsWith(s, Pfx_https)

\* A JSON value of the request body's fields: absent/null, a number or a string
JsonNone == [t |-> "none", s |-> <<>>]
JsonInt == [t |-> "int", s |-> <<>>]
JsonStr(s) == [t |-> "str", s |-> s]

\* Python truthiness of such a value (the number is non-zero)
Truthy(v) == v.t = "int" \/ (v.t = "str" /\ v.s # <<>>)

----------------------------------------------------------------------------
(* Raw formats of the extractor's metadata *)

\* One element of video_info['formats'].  A key the extractor leaves out
\* reads as None (NoneStr for strings); format_id is always present.
Format(vcodec, acodec, ext, height, filesize, filesize_approx, abr) ==
    [vcodec |-> vcodec, acodec |-> acodec, ext |-> ext, height |-> height,
     filesize |-> filesize, filesize_approx |-> filesize_approx, abr |-> abr]

\* The kinds of format the raw lists are drawn from: audio-only streams of
\* several containers and bitrates, video-only streams, progressive streams,
\* streams without a usable height, and a storyboard with neither codec.
FormatKinds ==
    {Format("none", "mp4a", "m4a", None, 3, None, 128),
     Format("none", "opus", "webm", None, None, 2, 160),
     Format(NoneStr, "mp4a", "mp4", None, None, None, None),
     Format("avc1", "none", "mp4", 720, 10, None, None),
     Format("vp9", NoneStr, "webm", 720, None, 11, None),
     Format("avc1", "none", "mp4", None, 1, None, None),
     Format("avc1", "mp4a", "mp4", 360, 6, None, None),
     Format("avc1", "mp4a", NoneStr, 720, 13, None, None),
     Format("avc1", "mp4a", "mp4", 1080, 20, None, None),
     Format("avc1", "mp4a", "mp4", 0, 9, None, None),
     Format("none", "none", "mhtml", 90, None, None, None)}

MaxFormats == 3

\* The format at position k of the raw list gets the format_id str(k).
WithId(f, k) == [format_id |-> IntToStr(k)] @@ f

\* The raw list made of the kinds fs[1], ..., fs[n]
RawList(fs, n) == [k \in 1..n |-> WithId(fs[k], k)]

\* best_audio_overall = None, and the result of dict.get for a missing key
NoFormat == WithId(Format(NoneStr, NoneStr, NoneStr, None, None, None, None), 0)

\* a or b, for integers
OrInt(a, b) == IF a # None /\ a # 0 THEN a ELSE b

\* `s and s != 'none'` for a codec
HasCodec(s) == s # NoneStr /\ s # "" /\ s # "none"

\* d.get(k) for a dict modelled as a function
DictGet(d, k) == IF k \in DOMAIN d THEN d[k] ELSE NoFormat

\* d[k] = v
DictSet(d, k, v) == [x \in DOMAIN d \cup {k} |-> IF x = k THEN v ELSE d[x]]

EmptyDict == [x \in {} |-> NoFormat]

----------------------------------------------------------------------------
(* Format normalization, get_qualities lines 175-267 *)

\* acodec and acodec != 'none' and (not vcodec or vcodec == 'none')
IsAudioOnly(fmt) == HasCodec(fmt.acodec) /\ ~HasCodec(fmt.vcodec)

\* vcodec and vcodec != 'none'
IsVideo(fmt) == HasCodec(fmt.vcodec)

\* fmt.get('abr') or 0
Abr(fmt) == OrInt(fmt.abr, 0)

\* fmt.get('filesize') or fmt.get('filesize_approx') or 0
Filesize(fmt) == OrInt(fmt.filesize, OrInt(fmt.filesize_approx, 0))

\* key = ext or 'default'
ExtKey(fmt) == IF fmt.ext # NoneStr /\ fmt.ext # "" THEN fmt.ext ELSE "default"

\* lines 195-198: the best audio of the container after seeing fmt
BestByExtAfter(best, fmt) ==
    LET current == DictGet(best, ExtKey(fmt))
    IN  IF current = NoFormat \/ Abr(fmt) > Abr(current)
        THEN DictSet(best, ExtKey(fmt), fmt)
        ELSE best

\* lines 199-200: the best audio overall after seeing fmt
BestOverallAfter(best, fmt) ==
    IF best = NoFormat \/ Abr(fmt) > Abr(best) THEN fmt ELSE best

\* resolution = f"{height}p"
Resolution(height) == IntToStr(height) \o <<"p">>

\* best_audio_by_ext.get(ext) or best_audio_overall
AudioMatch(by_ext, overall, fmt) ==
    IF DictGet(by_ext, fmt.ext) # NoFormat THEN DictGet(by_ext, fmt.ext) ELSE overall

\* f"{format_id}+{audio_match.get('format_id')}"
CombinedId(fmt, audio) == fmt.format_id \o <<"+">> \o audio.format_id

\* Mutant: a video-only format without an audio candidate is emitted alone.
IsDiscarded_KeepUnpaired(fmt, audio) == fmt.height = None \/ fmt.height = 0

\* lines 214-215 and 226-232: the format is skipped
IsDiscarded(fmt, audio) ==
    \/ fmt.height = None \/ fmt.height = 0
    \/ (~HasCodec(fmt.acodec) /\ audio = NoFormat)

\* lines 219-234: the entry built for a format that is not skipped.
\* filesize_mb, a rounding of filesize, is left out.
Entry(fmt, audio) ==
    [format_id |-> IF HasCodec(fmt.acodec) THEN fmt.format_id ELSE CombinedId(fmt, audio),
     resolution |-> Resolution(fmt.height),
     ext |-> IF fmt.ext # NoneStr /\ fmt.ext # "" THEN fmt.ext ELSE "mp4",
     filesize |-> IF HasCodec(fmt.acodec) THEN Filesize(fmt)
                  ELSE Filesize(fmt) + Filesize(audio)]

\* Mutant: an entry of equal size replaces the one seen before.
IsDuplicate_Strict(seen, entry) ==
    entry.resolution \in DOMAIN seen /\ entry.filesize < seen[entry.resolution]

\* lines 237-240: the resolution was seen with a size at least as large
IsDuplicate(seen, entry) ==
    entry.resolution \in DOMAIN seen /\ entry.filesize <= seen[entry.resolution]

\* Mutant: the previous entry of the resolution is not removed.
WithoutResolution_Keep(processed, resolution) == processed

\* line 242: [f for f in processed_formats if f['resolution'] != resolution]
WithoutResolution(processed, resolution) ==
    SelectSeq(processed, LAMBDA f : f.resolution # resolution)

RECURSIVE FirstDigitRun(_, _)
\* re.search(r'(\d+)', s).group(1), <<>> when there is no match; started
\* tells that the run has begun
FirstDigitRun(s, started) ==
    IF s = <<>> THEN <<>>
    ELSE IF IsDigit(Head(s)) THEN <<Head(s)>> \o FirstDigitRun(Tail(s), TRUE)
    ELSE IF started THEN <<>>
    ELSE FirstDigitRun(Tail(s), FALSE)

Str_unknown == <<"u", "n", "k", "n", "o", "w", "n">>

\* lines 256-265
get_resolution_number(fmt) ==
    IF fmt.resolution = Str_unknown THEN 0
    ELSE StrToInt(FirstDigitRun(fmt.resolution, FALSE))

\* Mutant: the sort is ascending (reverse=True forgotten).
InsertSorted_Ascending(sorted, f) ==
    LET before == SelectSeq(sorted, LAMBDA g : get_resolution_number(g) <= get_resolution_number(f))
        after == SelectSeq(sorted, LAMBDA g : get_resolution_number(g) > get_resolution_number(f))
    IN  before \o <<f>> \o after

\* Insert f into a list sorted by descending key, after the elements whose
\* key is not smaller (the sort is stable).
InsertSorted(sorted, f) ==
    LET before == SelectSeq(sorted, LAMBDA g : get_resolution_number(g) >= get_resolution_number(f))
        after == SelectSeq(sorted, LAMBDA g : get_resolution_number(g) < get_resolution_number(f))
    IN  before \o <<f>> \o after

RECURSIVE SortByResolution(_)
\* processed_formats.sort(key=get_resolution_number, reverse=True), line 267
SortByResolution(s) ==
    IF s = <<>> THEN <<>>
    ELSE InsertSorted(SortByResolution(SubSeq(s, 1, Len(s) - 1)), s[Len(s)])

----------------------------------------------------------------------------
(* Requests *)

MaxRequests == 2

Urls == {Url_https, Url_http, Url_ftp, Url_upper, Url_noscheme, Url_padded}

UrlValues == {JsonNone, JsonInt, JsonStr(<<>>)} \cup {JsonStr(u) : u \in Urls}

FormatIdValues == {JsonNone, JsonStr(Fid_single), JsonStr(Fid_pair)}

\* request.get_json(): null, or an object with the fields the handlers read
Body(isNull, url, format_id) == [null |-> isNull, url |-> url, format_id |-> format_id]

QualitiesBodies == {Body(TRUE, JsonNone, JsonNone)} \cup {Body(FALSE, u, JsonNone) : u \in UrlValues}

DownloadBodies ==
    {Body(TRUE, JsonNone, JsonNone)}
    \cup {Body(FALSE, u, f) : u \in UrlValues, f \in FormatIdValues}

\* The handler's locals before the request is read
FreshLocals ==
    /\ meta' = "none"
    /\ procs' = {}
    /\ formats' = <<>>
    /\ audio_formats' = <<>>
    /\ best_audio_by_ext' = EmptyDict
    /\ best_audio_overall' = NoFormat
    /\ video_formats' = <<>>
    /\ processed_formats' = <<>>
    /\ seen_resolutions' = EmptyDict
    /\ idx' = 1
    /\ response' = <<>>
    /\ rmtree_calls' = 0
    /\ ffmpeg_path' = NoneStr
    /\ file_chunks' = 0
    /\ chunks_sent' = 0

Accepted == [ok |-> TRUE, status |-> 0, msg |-> <<>>]
Rejected(status, msg) == [ok |-> FALSE, status |-> status, msg |-> msg]

\* get_qualities lines 158-166.  data.get on a null body and url.startswith
\* on a number raise AttributeError, which the except clause turns into a
\* response.
ValidateQualities(body) ==
    IF body.null THEN Rejected(QualitiesErrorStatus(Msg_NoneHasNoGet), Msg_NoneHasNoGet)
    ELSE IF ~Truthy(body.url) THEN Rejected(400, Msg_UrlRequired)
    ELSE IF body.url.t # "str"
    THEN Rejected(QualitiesErrorStatus(Msg_IntHasNoStartswith), Msg_IntHasNoStartswith)
    ELSE IF ~HasHttpScheme(body.url.s) THEN Rejected(400, Msg_InvalidUrl)
    ELSE Accepted

----------------------------------------------------------------------------
(* POST /api/qualities, src/app.py:154-289 *)

\* The request arrives; lines 158-166.  The handler reads and writes nothing
\* that outlives the request, so it is followed from the fresh server only.
QualitiesReceive(body) ==
    /\ served' = served + 1
    /\ endpoint' = "qualities"
    /\ data' = body
    /\ FreshLocals
    /\ temp_dir' = None
    /\ LET v == ValidateQualities(body)
       IN  IF v.ok
           THEN /\ pc' = "q_info"
                /\ status_code' = 0
                /\ error_message' = <<>>
           ELSE /\ pc' = "done"
                /\ status_code' = v.status
                /\ error_message' = v.msg
    /\ UNCHANGED <<sanVars, toolVars, disk, tool_cache>>

\* video_info = get_video_info(url), line 169: the node probes and the
\* extractor run; an exception goes to the except clause, lines 278-289
QualitiesGetVideoInfo(run) ==
    /\ procs' = procs \cup {"node", "yt-dlp"}
    /\ LET r == get_video_info(run)
       IN  IF r.raised
           THEN /\ meta' = run.kind
                /\ pc' = "done"
                /\ status_code' = QualitiesErrorStatus(r.msg)
                /\ error_message' = r.msg
                /\ UNCHANGED formats
           ELSE /\ meta' = run.kind
                /\ formats' = r.info
                /\ pc' = "q_collect"
                /\ UNCHANGED <<status_code, error_message>>
    /\ UNCHANGED <<sanVars, toolVars, endpoint, data, served, audio_formats, best_audio_by_ext,
                   best_audio_overall, video_formats, processed_formats,
                   seen_resolutions, idx, response, dlVars>>

\* The locals of the first loop
Collected(audios, by_ext, overall, videos) ==
    [audio_formats |-> audios, best_audio_by_ext |-> by_ext,
     best_audio_overall |-> overall, video_formats |-> videos]

\* One iteration of `for fmt in formats`, lines 185-204
CollectOne(c, fmt) ==
    Collected(IF IsAudioOnly(fmt) THEN Append(c.audio_formats, fmt) ELSE c.audio_formats,
              IF IsAudioOnly(fmt) THEN BestByExtAfter(c.best_audio_by_ext, fmt)
              ELSE c.best_audio_by_ext,
              IF IsAudioOnly(fmt) THEN BestOverallAfter(c.best_audio_overall, fmt)
              ELSE c.best_audio_overall,
              IF IsVideo(fmt) THEN Append(c.video_formats, fmt) ELSE c.video_formats)

RECURSIVE CollectAll(_, _)
\* The first n iterations of the loop
CollectAll(fmts, n) ==
    IF n = 0 THEN Collected(<<>>, EmptyDict, NoFormat, <<>>)
    ELSE CollectOne(CollectAll(fmts, n - 1), fmts[n])

\* The loop `for fmt in formats`, lines 185-204
QualitiesCollect ==
    /\ pc = "q_collect"
    /\ LET c == CollectAll(formats, Len(formats))
       IN  /\ audio_formats' = c.audio_formats
           /\ best_audio_by_ext' = c.best_audio_by_ext
           /\ best_audio_overall' = c.best_audio_overall
           /\ video_formats' = c.video_formats
           /\ pc' = IF c.video_formats = <<>> THEN "q_respond" ELSE "q_process"
    /\ idx' = 1
    /\ UNCHANGED <<sanVars, toolVars, endpoint, data, meta, procs, status_code, error_message,
                   served, formats, processed_formats, seen_resolutions, response, dlVars>>

\* One iteration of `for fmt in video_formats`, lines 207-253
QualitiesProcess ==
    /\ pc = "q_process"
    /\ LET fmt == video_formats[idx]
           audio == AudioMatch(best_audio_by_ext, best_audio_overall, fmt)
       IN  IF IsDiscarded(fmt, audio) \/ IsDuplicate(seen_resolutions, Entry(fmt, audio))
           THEN UNCHANGED <<processed_formats, seen_resolutions>>
           ELSE LET entry == Entry(fmt, audio)
                IN  /\ processed_formats' =
                          Append(IF entry.resolution \in DOMAIN seen_resolutions
                                 THEN WithoutResolution(processed_formats, entry.resolution)
                                 ELSE processed_formats,
                                 entry)
                    /\ seen_resolutions' =
                          DictSet(seen_resolutions, entry.resolution, entry.filesize)
    /\ IF idx < Len(video_formats)
       THEN /\ idx' = idx + 1
            /\ pc' = "q_process"
       ELSE /\ idx' = 1
            /\ pc' = "q_respond"
    /\ UNCHANGED <<sanVars, toolVars, endpoint, data, meta, procs, status_code, error_message,
                   served, formats, audio_formats, best_audio_by_ext,
                   best_audio_overall, video_formats, response, dlVars>>

\* Mutant: an empty result is answered like any other.
NoFormatsFound_Never(processed) == FALSE

\* if not processed_formats, line 269
NoFormatsFound(processed) == processed = <<>>

\* The sort and the response, lines 267-276
QualitiesRespond ==
    /\ pc = "q_respond"
    /\ processed_formats' = SortByResolution(processed_formats)
    /\ IF NoFormatsFound(SortByResolution(processed_formats))
       THEN /\ status_code' = 422
            /\ error_message' = Msg_NoFormats
            /\ response' = <<>>
       ELSE /\ status_code' = 200
            /\ error_message' = <<>>
            /\ response' = SortByResolution(processed_formats)
    /\ pc' = "done"
    /\ UNCHANGED <<sanVars, toolVars, endpoint, data, meta, procs, served, formats, audio_formats,
                   best_audio_by_ext, best_audio_overall, video_formats,
                   seen_resolutions, idx, dlVars>>

----------------------------------------------------------------------------
(* POST /api/download, src/app.py:291-460 *)

MaxChunks == 2

\* Mutant: the scheme check is left out.
ValidateDownload_NoScheme(body) ==
    IF body.null THEN Rejected(DownloadErrorStatus(Msg_NoneHasNoGet), Msg_NoneHasNoGet)
    ELSE IF ~Truthy(body.url) \/ ~Truthy(body.format_id)
    THEN Rejected(400, Msg_UrlAndFormatRequired)
    ELSE Accepted

\* download_video lines 298-307
ValidateDownload(body) ==
    IF body.null THEN Rejected(DownloadErrorStatus(Msg_NoneHasNoGet), Msg_NoneHasNoGet)
    ELSE IF ~Truthy(body.url) \/ ~Truthy(body.format_id)
    THEN Rejected(400, Msg_UrlAndFormatRequired)
    ELSE IF body.url.t # "str"
    THEN Rejected(DownloadErrorStatus(Msg_IntHasNoStartswith), Msg_IntHasNoStartswith)
    ELSE IF ~HasHttpScheme(body.url.s) THEN Rejected(400, Msg_InvalidUrl)
    ELSE Accepted

\* if temp_dir and os.path.exists(temp_dir), lines 416 and 455
ShouldRemove(dir, existing) == dir # None /\ dir \in existing

\* cleanup_temp_files, lines 452-460: the directories left on disk
DiskAfterCleanup(dir, existing) ==
    IF ShouldRemove(dir, existing) THEN existing \ {dir} ELSE existing

\* The shutil.rmtree calls cleanup makes
RmtreeCallsOf(dir, existing) == IF ShouldRemove(dir, existing) THEN 1 ELSE 0

\* The request arrives; lines 294-310.  mkdtemp makes a directory that did
\* not exist: it is named after the request's number.  A download request
\* may follow another, which leaves its mark on the disk and the tool cache.
DownloadReceive(body) ==
    /\ served' = served + 1
    /\ endpoint' = "download"
    /\ data' = body
    /\ FreshLocals
    /\ LET v == ValidateDownload(body)
       IN  IF v.ok
           THEN /\ temp_dir' = served + 1
                /\ disk' = disk \cup {served + 1}
                /\ pc' = "d_info"
                /\ status_code' = 0
                /\ error_message' = <<>>
           ELSE /\ temp_dir' = None
                /\ disk' = disk
                /\ pc' = "done"
                /\ status_code' = v.status
                /\ error_message' = v.msg
    /\ UNCHANGED <<sanVars, toolVars, tool_cache>>

\* An exception other than the download timeout, lines 437-449
DownloadRaise(msg) ==
    /\ disk' = DiskAfterCleanup(temp_dir, disk)
    /\ rmtree_calls' = rmtree_calls + RmtreeCallsOf(temp_dir, disk)
    /\ status_code' = DownloadErrorStatus(msg)
    /\ error_message' = msg
    /\ pc' = "done"

\* video_info = get_video_info(url), line 313
DownloadGetVideoInfo(run) ==
    /\ procs' = procs \cup {"node", "yt-dlp"}
    /\ LET r == get_video_info(run)
       IN  IF r.raised
           THEN /\ meta' = run.kind
                /\ DownloadRaise(r.msg)
           ELSE /\ meta' = run.kind
                /\ pc' = "d_tool"
                /\ UNCHANGED <<disk, rmtree_calls, status_code, error_message>>
    /\ UNCHANGED <<sanVars, toolVars, endpoint, data, served, qVars, temp_dir, tool_cache,
                   ffmpeg_path, file_chunks, chunks_sent>>

\* FFMPEG_WINGET_PATH, line 14
WingetPath == "FFMPEG_WINGET_PATH"

\* What tool_exists('ffmpeg') can find, lines 22-51: the WinGet path or
\* 'ffmpeg.exe' (on Windows only), the bare command, or nothing
ProbeResults(os_name) ==
    IF os_name = "nt" THEN {WingetPath, "ffmpeg", "ffmpeg.exe", NoneStr}
    ELSE {"ffmpeg", NoneStr}

\* ffmpeg_path = tool_exists('ffmpeg'), line 321: the cached value, or a
\* probe whose result is cached
DownloadToolExists(found) ==
    /\ IF "ffmpeg" \in DOMAIN tool_cache
       THEN /\ ffmpeg_path' = tool_cache["ffmpeg"]
            /\ UNCHANGED <<tool_cache, procs>>
       ELSE /\ ffmpeg_path' = found
            /\ tool_cache' = [t \in {"ffmpeg"} |-> found]
            /\ procs' = procs \cup {"ffmpeg"}
    /\ pc' = "d_run"
    /\ UNCHANGED <<sanVars, toolVars, endpoint, data, meta, status_code, error_message, served,
                   qVars, temp_dir, disk, rmtree_calls, file_chunks, chunks_sent>>

\* requires_merge = '+' in format_id, line 320
requires_merge == Contains(data.format_id.s, <<"+">>)

\* has_ffmpeg = ffmpeg_path is not None, line 322
has_ffmpeg == ffmpeg_path # NoneStr

\* The --merge-output-format argument, lines 353-365
MergeOutputFormat ==
    IF requires_merge THEN (IF has_ffmpeg THEN "mp4" ELSE "mkv") ELSE "none"

\* Outcomes of subprocess.run(yt_cmd, timeout=300) and of os.listdir: the
\* timeout expires, a non-zero exit with a diagnostic, exit 0 with an empty
\* directory, exit 0 with a file of some number of chunks.
DownloadRuns ==
    {[kind |-> k, stderr |-> <<>>, chunks |-> 0] : k \in {"timeout", "nofile"}}
    \cup {[kind |-> "exit", stderr |-> e, chunks |-> 0] : e \in Stderrs}
    \cup {[kind |-> "ok", stderr |-> <<>>, chunks |-> n] : n \in 0..MaxChunks}

\* Lines 334-431: the node probes, the extractor run and the response object
DownloadRun(run) ==
    /\ procs' = procs \cup {"node", "yt-dlp"}
    /\ CASE run.kind = "timeout" ->
               \* except subprocess.TimeoutExpired, lines 433-435
               /\ disk' = DiskAfterCleanup(temp_dir, disk)
               /\ rmtree_calls' = rmtree_calls + RmtreeCallsOf(temp_dir, disk)
               /\ status_code' = 408
               /\ error_message' = Msg_DownloadTimedOut
               /\ pc' = "done"
               /\ UNCHANGED <<file_chunks, chunks_sent>>
         [] run.kind = "exit" ->
               /\ DownloadRaise(Msg_DownloadFailed \o run.stderr)
               /\ UNCHANGED <<file_chunks, chunks_sent>>
         [] run.kind = "nofile" ->
               /\ DownloadRaise(Msg_FileNotFound)
               /\ UNCHANGED <<file_chunks, chunks_sent>>
         [] run.kind = "ok" ->
               /\ file_chunks' = run.chunks
               /\ chunks_sent' = 0
               /\ status_code' = 200
               /\ pc' = "streaming"
               /\ UNCHANGED <<disk, rmtree_calls, error_message>>
    /\ UNCHANGED <<sanVars, toolVars, endpoint, data, meta, served, qVars, temp_dir, tool_cache,
                   ffmpeg_path>>

\* generate() yields a chunk, lines 409-413
StreamChunk ==
    /\ pc = "streaming"
    /\ chunks_sent < file_chunks
    /\ chunks_sent' = chunks_sent + 1
    /\ UNCHANGED <<sanVars, toolVars, reqVars, qVars, temp_dir, disk, rmtree_calls, tool_cache,
                   ffmpeg_path, file_chunks>>

\* f.read returns nothing: the loop ends and the cleanup runs, lines 411-421
StreamFinish ==
    /\ pc = "streaming"
    /\ chunks_sent = file_chunks
    /\ disk' = DiskAfterCleanup(temp_dir, disk)
    /\ rmtree_calls' = rmtree_calls + RmtreeCallsOf(temp_dir, disk)
    /\ pc' = "done"
    /\ UNCHANGED <<sanVars, toolVars, endpoint, data, meta, procs, status_code, error_message,
                   served, qVars, temp_dir, tool_cache, ffmpeg_path, file_chunks, chunks_sent>>

\* The client disconnects and the server closes the response iterable: a
\* generator that has not started never runs, a generator suspended at
\* `yield chunk` gets GeneratorExit there.  The cleanup after the loop, which
\* is in no finally clause, is not reached.
StreamAbandon ==
    /\ pc = "streaming"
    /\ pc' = "done"
    /\ UNCHANGED <<sanVars, toolVars, endpoint, data, meta, procs, status_code, error_message,
                   served, qVars, dlVars>>

----------------------------------------------------------------------------
(* tool_exists('ffmpeg') called by concurrent requests, src/app.py:17-51 *)

\* The server threads that run download_video at the same time, and the
\* calls of tool_exists they make in all
MaxCallers == 2
MaxCalls == 3

Callers == 1..MaxCallers

\* tret of a thread whose call has not returned
NotReturned == "<not returned>"

\* _tool_cache[cmd] = value; return value
CacheAndReturn(c, value) ==
    /\ tool_cache' = [t \in DOMAIN tool_cache \cup {"ffmpeg"} |->
                         IF t = "ffmpeg" THEN value ELSE tool_cache[t]]
    /\ cache_writes' = cache_writes + 1
    /\ wrote' = [wrote EXCEPT ![c] = TRUE]
    /\ tret' = [tret EXCEPT ![c] = value]
    /\ tpc' = [tpc EXCEPT ![c] = "done"]

\* A thread enters tool_exists, lines 19-25: the cached value is returned,
\* or the first probe is started (the WinGet path when it exists on Windows,
\* else the bare command)
ToolCall(c) ==
    /\ tpc[c] \in {"idle", "done"}
    /\ calls < MaxCalls
    /\ calls' = calls + 1
    /\ wrote' = [wrote EXCEPT ![c] = FALSE]
    /\ IF "ffmpeg" \in DOMAIN tool_cache
       THEN /\ tret' = [tret EXCEPT ![c] = tool_cache["ffmpeg"]]
            /\ tpc' = [tpc EXCEPT ![c] = "done"]
       ELSE /\ tret' = [tret EXCEPT ![c] = NotReturned]
            /\ \E winget_exists \in BOOLEAN :
                  tpc' = [tpc EXCEPT ![c] =
                             IF platform = "nt" /\ winget_exists THEN "winget" ELSE "direct"]
    /\ UNCHANGED <<sanVars, reqVars, qVars, dlVars, platform, cache_writes>>

\* subprocess.run([FFMPEG_WINGET_PATH, '--version']) ends, lines 26-31
ToolWingetReturns(c) ==
    /\ tpc[c] = "winget"
    /\ \E ran \in BOOLEAN :
          IF ran
          THEN CacheAndReturn(c, WingetPath)
          ELSE /\ tpc' = [tpc EXCEPT ![c] = "direct"]
               /\ UNCHANGED <<tool_cache, cache_writes, wrote, tret>>
    /\ UNCHANGED <<sanVars, reqVars, qVars, temp_dir, disk, rmtree_calls, ffmpeg_path,
                   file_chunks, chunks_sent, platform, calls>>

\* subprocess.run([cmd, '--version']) ends, lines 33-39, and on another
\* system than Windows lines 50-51 follow a failure
ToolDirectReturns(c) ==
    /\ tpc[c] = "direct"
    /\ \E ran \in BOOLEAN :
          IF ran
          THEN CacheAndReturn(c, "ffmpeg")
          ELSE IF platform = "nt"
          THEN /\ tpc' = [tpc EXCEPT ![c] = "exe"]
               /\ UNCHANGED <<tool_cache, cache_writes, wrote, tret>>
          ELSE CacheAndReturn(c, NoneStr)
    /\ UNCHANGED <<sanVars, reqVars, qVars, temp_dir, disk, rmtree_calls, ffmpeg_path,
                   file_chunks, chunks_sent, platform, calls>>

\* subprocess.run([f'{cmd}.exe', '--version']) ends, lines 42-51
ToolExeReturns(c) ==
    /\ tpc[c] = "exe"
    /\ \E ran \in BOOLEAN :
          IF ran THEN CacheAndReturn(c, "ffmpeg.exe") ELSE CacheAndReturn(c, NoneStr)
    /\ UNCHANGED <<sanVars, reqVars, qVars, temp_dir, disk, rmtree_calls, ffmpeg_path,
                   file_chunks, chunks_sent, platform, calls>>

----------------------------------------------------------------------------
(* Specifications *)

SanIdle ==
    /\ spc = "start"
    /\ sanitized = <<>>
    /\ resanitized = <<>>

ServerIdle ==
    /\ pc = "idle"
    /\ endpoint = "none"
    /\ data = Body(TRUE, JsonNone, JsonNone)
    /\ meta = "none"
    /\ procs = {}
    /\ status_code = 0
    /\ error_message = <<>>
    /\ served = 0
    /\ formats = <<>>
    /\ audio_formats = <<>>
    /\ best_audio_by_ext = EmptyDict
    /\ best_audio_overall = NoFormat
    /\ video_formats = <<>>
    /\ processed_formats = <<>>
    /\ seen_resolutions = EmptyDict
    /\ idx = 1
    /\ response = <<>>
    /\ temp_dir = None
    /\ disk = {}
    /\ rmtree_calls = 0
    /\ tool_cache = [t \in {} |-> NoneStr]
    /\ ffmpeg_path = NoneStr
    /\ file_chunks = 0
    /\ chunks_sent = 0

\* No thread is in tool_exists
ThreadsIdle ==
    /\ tpc = [c \in Callers |-> "idle"]
    /\ tret = [c \in Callers |-> NotReturned]
    /\ calls = 0
    /\ cache_writes = 0
    /\ wrote = [c \in Callers |-> FALSE]

\* The server after start-up
Init ==
    /\ SanIdle
    /\ filename = <<>>
    /\ ServerIdle
    /\ platform = "posix"
    /\ ThreadsIdle

\* A request to /api/qualities arrives
QualitiesRequest ==
    /\ pc = "idle"
    /\ served < MaxRequests
    /\ \E body \in QualitiesBodies : QualitiesReceive(body)

\* get_qualities calls get_video_info and the extractor answers
QualitiesMetadata ==
    /\ pc = "q_info"
    /\ \/ \E run \in FailedRuns : QualitiesGetVideoInfo(run)
       \/ \E n \in 0..MaxFormats :
             \E fs \in [1..n -> FormatKinds] : QualitiesGetVideoInfo(OkRun(RawList(fs, n)))

\* A request to /api/download arrives
DownloadRequest ==
    /\ pc \in {"idle", "done"}
    /\ endpoint # "qualities"
    /\ served < MaxRequests
    /\ \E body \in DownloadBodies : DownloadReceive(body)

\* download_video calls get_video_info and the extractor answers
DownloadMetadata ==
    /\ pc = "d_info"
    /\ \E run \in FailedRuns \cup {OkRun(<<>>)} : DownloadGetVideoInfo(run)

\* download_video looks for ffmpeg, on either kind of operating system
DownloadProbe ==
    /\ pc = "d_tool"
    /\ \E os_name \in {"posix", "nt"} :
          \E found \in ProbeResults(os_name) : DownloadToolExists(found)

\* download_video runs the extractor
DownloadExtract ==
    /\ pc = "d_run"
    /\ \E run \in DownloadRuns : DownloadRun(run)

Next ==
    \/ QualitiesRequest
    \/ QualitiesMetadata
    \/ QualitiesCollect
    \/ QualitiesProcess
    \/ QualitiesRespond
    \/ DownloadRequest
    \/ DownloadMetadata
    \/ DownloadProbe
    \/ DownloadExtract
    \/ StreamChunk
    \/ StreamFinish
    \/ StreamAbandon

Spec == Init /\ [][Next]_vars

\* sanitize_filename applied to a name, and to its own result
SanInit ==
    /\ spc = "start"
    /\ \E p \in Affixes, n \in FillLens, s \in Affixes : filename = Filename(p, n, s)
    /\ sanitized = <<>>
    /\ resanitized = <<>>
    /\ ServerIdle
    /\ platform = "posix"
    /\ ThreadsIdle

\* safe_title = sanitize_filename(title), line 315
SanitizeOnce ==
    /\ spc = "start"
    /\ sanitized' = sanitize_filename(filename)
    /\ spc' = "once"
    /\ UNCHANGED <<filename, resanitized, reqVars, qVars, dlVars, toolVars>>

\* sanitize_filename applied to its own output
SanitizeAgain ==
    /\ spc = "once"
    /\ resanitized' = sanitize_filename(sanitized)
    /\ spc' = "twice"
    /\ UNCHANGED <<filename, sanitized, reqVars, qVars, dlVars, toolVars>>

SanNext == SanitizeOnce \/ SanitizeAgain

SpecSanitize == SanInit /\ [][SanNext]_vars

\* The server after start-up, on either kind of operating system
ToolInit ==
    /\ SanIdle
    /\ filename = <<>>
    /\ ServerIdle
    /\ platform \in {"posix", "nt"}
    /\ ThreadsIdle

ToolNext ==
    \/ \E c \in Callers : ToolCall(c)
    \/ \E c \in Callers : ToolWingetReturns(c)
    \/ \E c \in Callers : ToolDirectReturns(c)
    \/ \E c \in Callers : ToolExeReturns(c)

\* Threads of the server calling tool_exists('ffmpeg') at the same time
SpecTool == ToolInit /\ [][ToolNext]_vars

----------------------------------------------------------------------------
(* Claims about sanitize_filename *)

NoIllegalChar(s) == \A i \in 1..Len(s) : s[i] \notin IllegalChars
NoEdgeDotOrSpace(s) == s # <<>> => (s[1] \notin StripChars /\ s[Len(s)] \notin StripChars)

\* C3: for every input, the output of sanitize_filename has none of the
\* characters < > : " / \ | ? *, neither starts nor ends with a dot or a
\* space, is at most 200 characters long and is not empty.
C3_SanitizedIsClean ==
    spc # "start" =>
        /\ NoIllegalChar(sanitized)
        /\ NoEdgeDotOrSpace(sanitized)
        /\ Len(sanitized) <= MaxFilenameLen
        /\ sanitized # <<>>

\* C4: sanitize_filename is idempotent: applying it to its own output gives
\* that output back.
C4_Idempotent == spc = "twice" => resanitized = sanitized

----------------------------------------------------------------------------
(* Claims about the download request *)

\* C1: in every terminal state of a download request that created a
\* temporary directory, the directory no longer exists and was removed by
\* exactly one rmtree call, whichever way the request ended.
C1_TempDirRemovedOnce ==
    (endpoint = "download" /\ pc = "done" /\ temp_dir # None) =>
        (temp_dir \notin disk /\ rmtree_calls = 1)

----------------------------------------------------------------------------
(* Claims about both endpoints *)

\* The url of the request is absent, not a string, or a string without the
\* http:// or https:// prefix
UrlLacksScheme ==
    /\ endpoint # "none"
    /\ ~data.null
    /\ \/ data.url.t # "str"
       \/ ~(StartsWith(data.url.s, Pfx_http) \/ StartsWith(data.url.s, Pfx_https))

\* C2: a request to /api/qualities or /api/download whose url does not start
\* with http:// or https:// is answered with status 400, and no external
\* process is spawned and no temporary directory is created for it.
C2_BadUrlRejectedBeforeAnyCall ==
    UrlLacksScheme =>
        /\ pc = "done"
        /\ status_code = 400
        /\ procs = {}
        /\ temp_dir = None

C2_Witness ==
    /\ UrlLacksScheme
    /\ endpoint = "download"
    /\ data.url = JsonStr(Url_ftp)
    /\ data.format_id = JsonStr(Fid_pair)
    /\ pc = "done"
    /\ status_code = 400

\* C9: when the extractor call of get_video_info exceeds its timeout, the
\* endpoint answers with status 503, in /api/qualities and in /api/download.
C9_MetadataTimeoutIs503 ==
    (pc = "done" /\ meta = "timeout") => status_code = 503

----------------------------------------------------------------------------
(* Claims about format normalization *)

Labels(entries) == {entries[i].resolution : i \in 1..Len(entries)}

DistinctLabels(entries) ==
    \A i, j \in 1..Len(entries) : entries[i].resolution = entries[j].resolution => i = j

\* C5: processed_formats never holds two entries with the same resolution
\* label, after each iteration of the processing loop and in the response,
\* and seen_resolutions has exactly the labels of processed_formats.
C5_OneEntryPerResolution ==
    /\ DistinctLabels(processed_formats)
    /\ DistinctLabels(response)
    /\ DOMAIN seen_resolutions = Labels(processed_formats)

\* The video formats handled so far that were not skipped for their height
\* or for want of an audio candidate
KeptSoFar ==
    {i \in 1..Len(video_formats) :
        /\ (pc = "q_process" => i < idx)
        /\ ~IsDiscarded(video_formats[i],
                        AudioMatch(best_audio_by_ext, best_audio_overall, video_formats[i]))}

\* The loop has met a resolution again and holds two entries
C5_Witness ==
    /\ pc \in {"q_process", "q_respond"}
    /\ Len(processed_formats) >= 2
    /\ Cardinality(KeptSoFar) > Len(processed_formats)

\* The numeric value of a label: its first run of digits, 0 without digits
LabelNumber(label) == StrToInt(FirstDigitRun(label, FALSE))

\* C6: the formats array of the response is ordered by non-increasing numeric
\* resolution.
C6_SortedDescending ==
    \A i, j \in 1..Len(response) :
        i < j => LabelNumber(response[i].resolution) >= LabelNumber(response[j].resolution)

\* The position in the raw list of the format an entry was made from
SourceOf(entry) ==
    CHOOSE i \in 1..Len(formats) :
        \/ entry.format_id = formats[i].format_id
        \/ StartsWith(entry.format_id, formats[i].format_id \o <<"+">>)

\* A response of several entries whose formats came in ascending order
C6_Witness ==
    /\ pc = "done"
    /\ Len(response) >= 2
    /\ \E i, j \in 1..Len(response) :
          /\ i < j
          /\ SourceOf(response[i]) > SourceOf(response[j])
          /\ LabelNumber(response[i].resolution) > LabelNumber(response[j].resolution)

HasAudioTrack(f) == f.acodec \notin {"none", NoneStr, ""}
HasVideoTrack(f) == f.vcodec \notin {"none", NoneStr, ""}
AudioOnlyPositions == {j \in 1..Len(formats) : HasAudioTrack(formats[j]) /\ ~HasVideoTrack(formats[j])}

\* The entry is a progressive format under its own identifier, or a
\* video-only format paired with an audio-only format of the same raw list
WellPaired(entry) ==
    \E i \in 1..Len(formats) :
        /\ HasVideoTrack(formats[i])
        /\ IF HasAudioTrack(formats[i])
           THEN entry.format_id = formats[i].format_id
           ELSE \E j \in AudioOnlyPositions :
                   entry.format_id = formats[i].format_id \o <<"+">> \o formats[j].format_id

\* C7: a video-bearing format without an audio track is emitted only when
\* the raw list has an audio-only format, and then under the identifier
\* '<video_format_id>+<audio_format_id>'; no entry lacks its audio half.
C7_VideoOnlyNeedsAudio ==
    /\ \A k \in 1..Len(processed_formats) : WellPaired(processed_formats[k])
    /\ \A k \in 1..Len(response) : WellPaired(response[k])

\* A video-only format with a height met no audio candidate, and the
\* response was made of the other formats
C7_Witness ==
    /\ pc = "done"
    /\ status_code = 200
    /\ AudioOnlyPositions = {}
    /\ \E i \in 1..Len(formats) :
          /\ HasVideoTrack(formats[i])
          /\ ~HasAudioTrack(formats[i])
          /\ formats[i].height \notin {None, 0}

\* No format of the raw list can be emitted: it has no video, no height, or
\* no audio of its own and none to be paired with
AllFiltered ==
    \A i \in 1..Len(formats) :
        \/ ~HasVideoTrack(formats[i])
        \/ formats[i].height \in {None, 0}
        \/ (~HasAudioTrack(formats[i]) /\ AudioOnlyPositions = {})

\* C8: when metadata retrieval succeeds and the raw list is empty or wholly
\* filtered out, /api/qualities answers 422 with an error message, and it
\* never answers 200 with an empty formats array.
C8_NoFormatsIs422 ==
    (endpoint = "qualities" /\ pc = "done" /\ meta = "ok") =>
        /\ AllFiltered => (status_code = 422 /\ error_message # <<>> /\ response = <<>>)
        /\ status_code = 200 => response # <<>>

C8_Witness ==
    /\ endpoint = "qualities"
    /\ pc = "done"
    /\ meta = "ok"
    /\ formats # <<>>
    /\ AllFiltered
    /\ status_code = 422

\* The first of the positions S with the highest bitrate
BestAudioOf(S) ==
    CHOOSE j \in S :
        \A k \in S : \/ OrInt(formats[j].abr, 0) > OrInt(formats[k].abr, 0)
                     \/ (OrInt(formats[j].abr, 0) = OrInt(formats[k].abr, 0) /\ j <= k)

\* The audio-only formats of the container of format i
SameContainer(i) ==
    {j \in AudioOnlyPositions :
        (IF formats[j].ext \in {NoneStr, ""} THEN "default" ELSE formats[j].ext) = formats[i].ext}

\* The audio paired with the video-only format i: the best of its container,
\* else the best overall; 0 when the raw list has no audio-only format
PairedAudio(i) ==
    IF SameContainer(i) # {} THEN BestAudioOf(SameContainer(i))
    ELSE IF AudioOnlyPositions # {} THEN BestAudioOf(AudioOnlyPositions)
    ELSE 0

SizeOf(i) == OrInt(formats[i].filesize, OrInt(formats[i].filesize_approx, 0))

\* Video size plus paired audio size
CombinedSize(i) ==
    IF HasAudioTrack(formats[i]) THEN SizeOf(i) ELSE SizeOf(i) + SizeOf(PairedAudio(i))

CombinedIdOf(i) ==
    IF HasAudioTrack(formats[i]) THEN formats[i].format_id
    ELSE formats[i].format_id \o <<"+">> \o formats[PairedAudio(i)].format_id

\* The formats that are not discarded and carry the label
Candidates(label) ==
    {i \in 1..Len(formats) :
        /\ HasVideoTrack(formats[i])
        /\ formats[i].height \notin {None, 0}
        /\ (HasAudioTrack(formats[i]) \/ AudioOnlyPositions # {})
        /\ IntToStr(formats[i].height) \o <<"p">> = label}

\* The earliest candidate of the largest combined size
Largest(label) ==
    CHOOSE i \in Candidates(label) :
        \A k \in Candidates(label) :
            \/ CombinedSize(i) > CombinedSize(k)
            \/ (CombinedSize(i) = CombinedSize(k) /\ i <= k)

\* C10: for every resolution label of the output, the entry's filesize is the
\* largest combined size among the formats of that label that are not
\* discarded, wherever they stand in the raw list, and on a tie the entry is
\* the earliest such format.
C10_LargestPerResolution ==
    (endpoint = "qualities" /\ pc = "done" /\ status_code = 200) =>
        /\ Labels(response) = {l \in {IntToStr(formats[i].height) \o <<"p">> :
                                        i \in {k \in 1..Len(formats) : formats[k].height >= 0}} :
                                  Candidates(l) # {}}
        /\ \A k \in 1..Len(response) :
              LET best == Largest(response[k].resolution)
              IN  /\ response[k].filesize = CombinedSize(best)
                  /\ response[k].format_id = CombinedIdOf(best)

\* Two formats of one label tie on the largest combined size, the earlier
\* of them a video-only format with its paired audio
C10_Witness ==
    /\ endpoint = "qualities"
    /\ pc = "done"
    /\ status_code = 200
    /\ \E l \in Labels(response) :
          \E i, j \in Candidates(l) :
              /\ i < j
              /\ ~HasAudioTrack(formats[i])
              /\ CombinedSize(i) = CombinedSize(j)
              /\ CombinedSize(i) = CombinedSize(Largest(l))

----------------------------------------------------------------------------
(* Claims about the tool cache *)

\* C11: the cache entry of a tool name is written at most once, also when
\* several requests call tool_exists at the same time: a written entry is
\* never written again, no call that finds it probes, and all calls return
\* the same value.
C11_CachePopulatedOnce ==
    /\ cache_writes <= 1
    /\ \A c, d \in Callers :
          (tret[c] # NotReturned /\ tret[d] # NotReturned) => tret[c] = tret[d]

====
